---------------------------- MODULE Spec2Model ----------------------------
(***************************************************************************)
(* Visibility-pass sweep of the two satellite scripts.                     *)
(*                                                                         *)
(*   variant 1: Информация_о_спутнике_1.py  calculate_and_save_data        *)
(*   variant 2: Информация_о_спутнике_2.py  calculate_and_save_data        *)
(*                                                                         *)
(* Both scripts sweep current_time from start_time_utc to end_time_utc in  *)
(* steps of step_seconds, ask skyfield for the geometry at each instant,   *)
(* and segment the instants into passes.  The geometry (skyfield) is the   *)
(* only external part; it is modelled as the oracle altaz, a function of   *)
(* the instant that either raises or returns an elevation.  The two        *)
(* variants are two sequential programs run on the same inputs; their      *)
(* steps interleave freely.                                                *)
(*                                                                         *)
(* Units: instants and durations are counted in ticks of 1/TicksPerSecond  *)
(* second, angles in 1/DegScale degree, so that round(x, 1), round(x, 2)   *)
(* and round(x, 3) of the code are real roundings in the model.            *)
(***************************************************************************)
EXTENDS Integers, Sequences, FiniteSets, TLC

\* ------------------------------------------------------------------ bounds
\* The largest number of instants a modelled sweep evaluates.
MaxSteps == 4

\* --------------------------------------------------------------- units
TicksPerSecond == 100
DegScale == 10000
DayTicks == 24 * 3600 * TicksPerSecond

\* Python's None, and the truth value Python gives a dict or None.
None == <<>>
Truthy(d) == DOMAIN d # {}

\* round(x, n) of a float: to the nearest multiple of m units, ties to even.
RoundTo(x, m) ==
    LET r  == x % m
        lo == x - r
    IN  IF 2 * r < m THEN lo
        ELSE IF 2 * r > m THEN lo + m
        ELSE IF (lo \div m) % 2 = 0 THEN lo ELSE lo + m

\* round(seconds, 1), round(degrees, 2), round(degrees, 3)
Round1Sec(x) == RoundTo(x, TicksPerSecond \div 10)
Round2Deg(x) == RoundTo(x, DegScale \div 100)
Round3Deg(x) == RoundTo(x, DegScale \div 1000)

\* timedelta(seconds = s), in ticks
timedelta(s) == s * TicksPerSecond

\* Mutant of isoformat: prints the time of day only, without the date.
isoformat_TimeOnly(t) ==
    [ day    |-> 0,
      hour   |-> (t % DayTicks) \div (3600 * TicksPerSecond),
      minute |-> ((t % DayTicks) \div (60 * TicksPerSecond)) % 60,
      second |-> ((t % DayTicks) \div TicksPerSecond) % 60,
      frac   |-> t % TicksPerSecond ]

\* datetime.isoformat(): the instant split into its printed fields.
isoformat(t) ==
    [ day    |-> t \div DayTicks,
      hour   |-> (t % DayTicks) \div (3600 * TicksPerSecond),
      minute |-> ((t % DayTicks) \div (60 * TicksPerSecond)) % 60,
      second |-> ((t % DayTicks) \div TicksPerSecond) % 60,
      frac   |-> t % TicksPerSecond ]

\* datetime.fromisoformat(): the instant read back from its printed fields.
fromisoformat(s) ==
    (((s.day * 24 + s.hour) * 60 + s.minute) * 60 + s.second) * TicksPerSecond
        + s.frac

\* (fromisoformat(end) - fromisoformat(start)).total_seconds(), in ticks
ElapsedTicks(p) == fromisoformat(p.end) - fromisoformat(p.start)

\* ------------------------------------------------------------------ inputs
\* Sweep parameters the model draws from.  step_seconds is an int > 0
\* (the parameter's annotation, and the sweep contract).
\* <<start_time_utc, step_seconds>>: a sweep of minutes from midnight, and a
\* sweep of seconds that starts half a second before the next midnight.
SweepChoices == {<<0, 60>>, <<DayTicks - TicksPerSecond \div 2, 1>>}
MinElevations == {10 * DegScale}
\* elevations skyfield may return: below, exactly at, and above the threshold
Elevations(m) == {m - 4, m, m + 15 * DegScale + 49}

Fail == [ok |-> FALSE, alt |-> 0]
Outcomes(m) == {Fail} \cup {[ok |-> TRUE, alt |-> e] : e \in Elevations(m)}

\* The instants start, start + step, ... not later than end.
SweepTimes(start, end, step) ==
    {start + k * timedelta(step) : k \in 0 .. (MaxSteps - 1)}
        \cap {t \in Int : t <= end}

\* end_time_utc: before the start (empty sweep), on a sweep instant, or
\* half a second after the third one.
EndChoices(start, step) ==
    {start - TicksPerSecond}
        \cup {start + k * timedelta(step) : k \in 0 .. (MaxSteps - 1)}
        \cup {start + 2 * timedelta(step) + TicksPerSecond \div 2}

VARIABLES
    start_time_utc, end_time_utc, step_seconds, min_elevation,  \* parameters
    altaz,             \* the geometry at each instant: raises, or an elevation
    catalog,           \* celestrak: "ok", or "fails" (unreachable / not found)
    \* variant 1
    pc1, current_time1, passes_data, ephemeris_data, pass_counter,
    current_pass1, evaluated1, passes_file1, ephemeris_file1,
    \* variant 2
    pc2, current_time2, passes, ephemeris, pass_number,
    current_pass2, evaluated2, passes_file2, ephemeris_file2,
    \* set before the sweep, and the reports an earlier run left
    satellite_name, previous1, metadata, previous2

inputs == <<start_time_utc, end_time_utc, step_seconds, min_elevation, altaz,
            catalog>>
vars1 == <<pc1, current_time1, passes_data, ephemeris_data, pass_counter,
           current_pass1, evaluated1, passes_file1, ephemeris_file1>>
vars2 == <<pc2, current_time2, passes, ephemeris, pass_number,
           current_pass2, evaluated2, passes_file2, ephemeris_file2>>
setup1 == <<satellite_name, previous1>>
setup2 == <<metadata, previous2>>
vars == <<inputs, vars1, vars2, setup1, setup2>>
\* what a step of variant 1 (variant 2) leaves alone
others1 == <<inputs, vars2, setup2>>
others2 == <<inputs, vars1, setup1>>

\* The two answers of the catalog, and what the scripts call the satellite.
CatalogAnswers == {"ok", "fails"}
CatalogName == "ISS"
FallbackName == "SAT-25544"

InitInputs ==
    /\ \E c \in SweepChoices : start_time_utc = c[1] /\ step_seconds = c[2]
    /\ end_time_utc \in EndChoices(start_time_utc, step_seconds)
    /\ min_elevation \in MinElevations
    /\ catalog \in CatalogAnswers
    /\ altaz \in [SweepTimes(start_time_utc, end_time_utc, step_seconds)
                    -> Outcomes(min_elevation)]

\* ---------------------------------------------------------------- variant 1
Init1 ==
    /\ pc1 = "start"
    /\ satellite_name = ""
    /\ previous1 = None
    /\ current_time1 = start_time_utc
    /\ passes_data = <<>>
    /\ ephemeris_data = <<>>
    /\ pass_counter = 0
    /\ current_pass1 = None
    /\ evaluated1 = <<>>
    /\ passes_file1 = None
    /\ ephemeris_file1 = None

\* get_satellite_name(norad_id): the catalog's name, or the fallback when the
\* request fails or finds nothing.
get_satellite_name == IF catalog = "ok" THEN CatalogName ELSE FallbackName

\* Mutant of V1_Setup: the pass counter lives on from one run to the next.
V1_Setup_KeepsCounter ==
    /\ pc1 = "start"
    /\ satellite_name' = get_satellite_name
    /\ passes_data' = <<>>
    /\ ephemeris_data' = <<>>
    /\ pass_counter' = pass_counter
    /\ current_pass1' = None
    /\ current_time1' = start_time_utc
    /\ evaluated1' = <<>>
    /\ pc1' = "loop"
    /\ UNCHANGED <<passes_file1, ephemeris_file1, previous1>>

\* Before the loop: look the name up and initialise the locals.
V1_Setup ==
    /\ pc1 = "start"
    /\ satellite_name' = get_satellite_name
    /\ passes_data' = <<>>
    /\ ephemeris_data' = <<>>
    /\ pass_counter' = 0
    /\ current_pass1' = None
    /\ current_time1' = start_time_utc
    /\ evaluated1' = <<>>
    /\ pc1' = "loop"
    /\ UNCHANGED <<passes_file1, ephemeris_file1, previous1>>

\* Mutant of IsVisible1: the threshold itself does not count as visible.
IsVisible1_Strict(alt) == alt > min_elevation

\* alt.degrees >= min_elevation
IsVisible1(alt) == alt >= min_elevation

\* Mutant of NewPass1: numbers the passes from 0.
NewPass1_ZeroBased(id, t, alt) ==
    [ pass_id |-> id - 1, start |-> isoformat(t), end |-> isoformat(t),
      max_elevation |-> alt, duration_sec |-> 0 ]

\* The pass opened at the first visible instant.
NewPass1(id, t, alt) ==
    [ pass_id |-> id, start |-> isoformat(t), end |-> isoformat(t),
      max_elevation |-> alt, duration_sec |-> 0 ]

\* Mutant of ExtendPass1: the end of the pass stays where the pass opened.
ExtendPass1_KeepEnd(p, t, alt) ==
    [p EXCEPT !.max_elevation = IF p.max_elevation >= alt
                                THEN p.max_elevation ELSE alt]

\* The open pass extended by one more visible instant.
ExtendPass1(p, t, alt) ==
    [p EXCEPT !.end = isoformat(t),
              !.max_elevation = IF p.max_elevation >= alt
                                THEN p.max_elevation ELSE alt]

\* Mutant of EphemerisEntry1: tagged with the counter's value before the pass.
EphemerisEntry1_OffByOne(id, t, alt) ==
    [ pass_id |-> id - 1, timestamp |-> isoformat(t),
      elevation |-> Round3Deg(alt) ]

EphemerisEntry1(id, t, alt) ==
    [ pass_id |-> id, timestamp |-> isoformat(t), elevation |-> Round3Deg(alt) ]

\* Mutant of ClosePass1: the duration counts the last step as well.
ClosePass1_Inclusive(p) ==
    [p EXCEPT !.duration_sec = ElapsedTicks(p) + timedelta(step_seconds)]

\* The open pass with its duration filled in, as appended to passes_data.
ClosePass1(p) == [p EXCEPT !.duration_sec = ElapsedTicks(p)]

\* Mutant of AfterFail1: the except branch continues without advancing.
AfterFail1_Stuck(t) == t

\* The time the sweep moves to after a step whose geometry raised.
AfterFail1(t) == t + timedelta(step_seconds)

\* One iteration whose geometry raises: log, advance, continue.
V1_StepFail ==
    /\ pc1 = "loop"
    /\ current_time1 <= end_time_utc
    /\ ~altaz[current_time1].ok
    /\ evaluated1' = Append(evaluated1, current_time1)
    /\ current_time1' = AfterFail1(current_time1)
    /\ UNCHANGED <<pc1, passes_data, ephemeris_data, pass_counter,
                   current_pass1, passes_file1, ephemeris_file1>>

\* One iteration at or above the threshold: open or extend the pass and
\* append the ephemeris entry.
V1_StepVisible ==
    /\ pc1 = "loop"
    /\ current_time1 <= end_time_utc
    /\ altaz[current_time1].ok
    /\ IsVisible1(altaz[current_time1].alt)
    /\ LET alt == altaz[current_time1].alt
           opening == ~Truthy(current_pass1)
           counter == IF opening THEN pass_counter + 1 ELSE pass_counter
       IN  /\ pass_counter' = counter
           /\ current_pass1' =
                 IF opening THEN NewPass1(counter, current_time1, alt)
                 ELSE ExtendPass1(current_pass1, current_time1, alt)
           /\ ephemeris_data' =
                 Append(ephemeris_data,
                        EphemerisEntry1(counter, current_time1, alt))
    /\ evaluated1' = Append(evaluated1, current_time1)
    /\ current_time1' = current_time1 + timedelta(step_seconds)
    /\ UNCHANGED <<pc1, passes_data, passes_file1, ephemeris_file1>>

\* Mutant of V1_StepNotVisible: a dip below the threshold leaves the pass open.
V1_StepNotVisible_KeepOpen ==
    /\ pc1 = "loop"
    /\ current_time1 <= end_time_utc
    /\ altaz[current_time1].ok
    /\ ~IsVisible1(altaz[current_time1].alt)
    /\ evaluated1' = Append(evaluated1, current_time1)
    /\ current_time1' = current_time1 + timedelta(step_seconds)
    /\ UNCHANGED <<pc1, passes_data, current_pass1, ephemeris_data,
                   pass_counter, passes_file1, ephemeris_file1>>

\* One iteration below the threshold: close the open pass, if any.
V1_StepNotVisible ==
    /\ pc1 = "loop"
    /\ current_time1 <= end_time_utc
    /\ altaz[current_time1].ok
    /\ ~IsVisible1(altaz[current_time1].alt)
    /\ IF Truthy(current_pass1)
       THEN /\ passes_data' = Append(passes_data, ClosePass1(current_pass1))
            /\ current_pass1' = None
       ELSE UNCHANGED <<passes_data, current_pass1>>
    /\ evaluated1' = Append(evaluated1, current_time1)
    /\ current_time1' = current_time1 + timedelta(step_seconds)
    /\ UNCHANGED <<pc1, ephemeris_data, pass_counter,
                   passes_file1, ephemeris_file1>>

\* Mutant of FinalPasses1: the pass still open after the loop is lost.
FinalPasses1_DropOpen == passes_data

\* passes_data after the loop: the pass still open is closed and appended.
FinalPasses1 ==
    IF Truthy(current_pass1)
    THEN Append(passes_data, ClosePass1(current_pass1))
    ELSE passes_data

\* After the loop: close the last pass and write both reports.
V1_Finish ==
    /\ pc1 = "loop"
    /\ current_time1 > end_time_utc
    /\ passes_data' = FinalPasses1
    /\ passes_file1' = [ metadata |-> [satellite_name |-> satellite_name],
                         total_passes |-> pass_counter,
                         passes |-> FinalPasses1 ]
    /\ ephemeris_file1' = [ metadata |-> [satellite_name |-> satellite_name],
                            ephemeris |-> ephemeris_data ]
    /\ pc1' = "done"
    /\ UNCHANGED <<current_time1, ephemeris_data, pass_counter,
                   current_pass1, evaluated1>>

\* The script run once more: the reports of the first run stay on disk.
V1_Rerun ==
    /\ pc1 = "done"
    /\ ~Truthy(previous1)
    /\ previous1' = [ passes_file |-> passes_file1,
                      ephemeris_file |-> ephemeris_file1 ]
    /\ pc1' = "start"
    /\ UNCHANGED <<current_time1, passes_data, ephemeris_data, pass_counter,
                   current_pass1, evaluated1, passes_file1, ephemeris_file1,
                   satellite_name>>

Sweep1 ==
    \/ (V1_StepFail \/ V1_StepVisible \/ V1_StepNotVisible \/ V1_Finish)
           /\ UNCHANGED setup1
    \/ V1_Setup

\* ---------------------------------------------------------------- variant 2
Init2 ==
    /\ pc2 = "start"
    /\ metadata = None
    /\ previous2 = None
    /\ current_time2 = start_time_utc
    /\ passes = <<>>
    /\ ephemeris = <<>>
    /\ pass_number = 0
    /\ current_pass2 = None
    /\ evaluated2 = <<>>
    /\ passes_file2 = None
    /\ ephemeris_file2 = None

\* Mutant of get_tle_ok: a failed load is swallowed and the run goes on.
get_tle_ok_Always == TRUE

\* get_tle(norad_id) returns a satellite; otherwise it raises RuntimeError.
get_tle_ok == catalog = "ok"

\* datetime.now(timezone.utc): the first run reads some instant, a later run
\* the same instant (a frozen clock) or a later one.
FirstReading == 0
ClockReadings(prev) ==
    IF Truthy(prev) THEN {FirstReading, FirstReading + 1} ELSE {FirstReading}

\* Before the loop: load the element set, build the metadata and initialise
\* the locals.
V2_Setup ==
    /\ pc2 = "start"
    /\ get_tle_ok
    /\ \E now \in ClockReadings(previous2) :
           metadata' = [ name |-> CatalogName, utc_calculated |-> now ]
    /\ passes' = <<>>
    /\ ephemeris' = <<>>
    /\ current_pass2' = None
    /\ pass_number' = 0
    /\ current_time2' = start_time_utc
    /\ evaluated2' = <<>>
    /\ pc2' = "loop"
    /\ UNCHANGED <<passes_file2, ephemeris_file2, previous2>>

\* get_tle raises: the call ends with RuntimeError before anything else.
V2_SetupFails ==
    /\ pc2 = "start"
    /\ ~get_tle_ok
    /\ pc2' = "failed"
    /\ UNCHANGED <<current_time2, passes, ephemeris, pass_number,
                   current_pass2, evaluated2, passes_file2, ephemeris_file2,
                   metadata, previous2>>

\* Mutant of IsVisible2: the threshold itself does not count as visible.
IsVisible2_Strict(alt) == alt > min_elevation

\* alt.degrees >= min_elevation
IsVisible2(alt) == alt >= min_elevation

\* Mutant of NewPass2: numbers the passes from 0.
NewPass2_ZeroBased(id, t, alt) ==
    [ pass_id |-> id - 1, start |-> isoformat(t), end |-> isoformat(t),
      max_elevation |-> Round2Deg(alt), events |-> <<>> ]

\* The pass opened at the first visible instant; it has no duration_sec yet.
NewPass2(id, t, alt) ==
    [ pass_id |-> id, start |-> isoformat(t), end |-> isoformat(t),
      max_elevation |-> Round2Deg(alt), events |-> <<>> ]

\* Mutant of ExtendPass2: the elevation the pass opened with is kept.
ExtendPass2_KeepMax(p, t, alt) == [p EXCEPT !.end = isoformat(t)]

\* The open pass extended by one more visible instant.
ExtendPass2(p, t, alt) ==
    [p EXCEPT !.end = isoformat(t),
              !.max_elevation = IF p.max_elevation >= Round2Deg(alt)
                                THEN p.max_elevation ELSE Round2Deg(alt)]

\* Mutant of EphemerisEntry2: stamped with the instant of the next step.
EphemerisEntry2_NextStep(id, t, alt) ==
    [ pass_id |-> id, timestamp |-> isoformat(t + timedelta(step_seconds)),
      elevation |-> Round3Deg(alt) ]

EphemerisEntry2(id, t, alt) ==
    [ pass_id |-> id, timestamp |-> isoformat(t), elevation |-> Round3Deg(alt) ]

\* Mutant of AddEvent2: the entry goes to the front of the events.
AddEvent2_Prepend(p, e) == [p EXCEPT !.events = <<e>> \o p.events]

\* current_pass["events"].append(ephemeris_entry)
AddEvent2(p, e) == [p EXCEPT !.events = Append(p.events, e)]

\* The open pass with its duration set, as appended to passes.
ClosePass2(p) == p @@ [duration_sec |-> Round1Sec(ElapsedTicks(p))]

\* Mutant of V2_StepFail: a step whose geometry raises closes the open pass.
V2_StepFail_Closes ==
    /\ pc2 = "loop"
    /\ current_time2 <= end_time_utc
    /\ ~altaz[current_time2].ok
    /\ IF Truthy(current_pass2)
       THEN /\ passes' = Append(passes, ClosePass2(current_pass2))
            /\ current_pass2' = None
       ELSE UNCHANGED <<passes, current_pass2>>
    /\ evaluated2' = Append(evaluated2, current_time2)
    /\ current_time2' = current_time2 + timedelta(step_seconds)
    /\ UNCHANGED <<pc2, ephemeris, pass_number,
                   passes_file2, ephemeris_file2>>

\* Mutant of V2_StepFail: a step whose geometry raises counts as a pass.
V2_StepFail_Counts ==
    /\ pc2 = "loop"
    /\ current_time2 <= end_time_utc
    /\ ~altaz[current_time2].ok
    /\ evaluated2' = Append(evaluated2, current_time2)
    /\ current_time2' = current_time2 + timedelta(step_seconds)
    /\ pass_number' = pass_number + 1
    /\ UNCHANGED <<pc2, passes, ephemeris,
                   current_pass2, passes_file2, ephemeris_file2>>

\* One iteration whose geometry raises: the except clause logs, then the
\* loop advances.
V2_StepFail ==
    /\ pc2 = "loop"
    /\ current_time2 <= end_time_utc
    /\ ~altaz[current_time2].ok
    /\ evaluated2' = Append(evaluated2, current_time2)
    /\ current_time2' = current_time2 + timedelta(step_seconds)
    /\ UNCHANGED <<pc2, passes, ephemeris, pass_number,
                   current_pass2, passes_file2, ephemeris_file2>>

\* One iteration at or above the threshold: open or extend the pass, append
\* the ephemeris entry to the global list and to the pass's events.
V2_StepVisible ==
    /\ pc2 = "loop"
    /\ current_time2 <= end_time_utc
    /\ altaz[current_time2].ok
    /\ IsVisible2(altaz[current_time2].alt)
    /\ LET alt == altaz[current_time2].alt
           opening == ~Truthy(current_pass2)
           number == IF opening THEN pass_number + 1 ELSE pass_number
           pass == IF opening THEN NewPass2(number, current_time2, alt)
                   ELSE ExtendPass2(current_pass2, current_time2, alt)
           entry == EphemerisEntry2(number, current_time2, alt)
       IN  /\ pass_number' = number
           /\ ephemeris' = Append(ephemeris, entry)
           /\ current_pass2' = AddEvent2(pass, entry)
    /\ evaluated2' = Append(evaluated2, current_time2)
    /\ current_time2' = current_time2 + timedelta(step_seconds)
    /\ UNCHANGED <<pc2, passes, passes_file2, ephemeris_file2>>

\* One iteration below the threshold: close the open pass, if any.
V2_StepNotVisible ==
    /\ pc2 = "loop"
    /\ current_time2 <= end_time_utc
    /\ altaz[current_time2].ok
    /\ ~IsVisible2(altaz[current_time2].alt)
    /\ IF Truthy(current_pass2)
       THEN /\ passes' = Append(passes, ClosePass2(current_pass2))
            /\ current_pass2' = None
       ELSE UNCHANGED <<passes, current_pass2>>
    /\ evaluated2' = Append(evaluated2, current_time2)
    /\ current_time2' = current_time2 + timedelta(step_seconds)
    /\ UNCHANGED <<pc2, ephemeris, pass_number,
                   passes_file2, ephemeris_file2>>

\* Mutant of FinalPasses2: the pass still open after the loop is lost.
FinalPasses2_DropOpen == passes

\* passes after the loop: the pass still open is closed and appended.
FinalPasses2 ==
    IF Truthy(current_pass2)
    THEN Append(passes, ClosePass2(current_pass2))
    ELSE passes

\* sum(p["duration_sec"] for p in passes)
RECURSIVE SumDuration(_)
SumDuration(ps) ==
    IF ps = <<>> THEN 0 ELSE Head(ps).duration_sec + SumDuration(Tail(ps))

\* Mutant of VisibleTimeTotal2: summed before the last pass is closed.
VisibleTimeTotal2_BeforeClose == SumDuration(passes)

\* "visible_time_total" of the statistics
VisibleTimeTotal2 == SumDuration(FinalPasses2)

\* After the loop: close the last pass and write both reports.
V2_Finish ==
    /\ pc2 = "loop"
    /\ current_time2 > end_time_utc
    /\ passes' = FinalPasses2
    /\ passes_file2' = [ metadata |-> metadata,
                         total_passes |-> pass_number,
                         visible_time_total |-> VisibleTimeTotal2,
                         passes |-> FinalPasses2 ]
    /\ ephemeris_file2' = [ metadata |-> metadata, ephemeris |-> ephemeris ]
    /\ pc2' = "done"
    /\ UNCHANGED <<current_time2, ephemeris, pass_number,
                   current_pass2, evaluated2>>

\* The script run once more: the reports of the first run stay on disk.
V2_Rerun ==
    /\ pc2 = "done"
    /\ ~Truthy(previous2)
    /\ previous2' = [ passes_file |-> passes_file2,
                      ephemeris_file |-> ephemeris_file2 ]
    /\ pc2' = "start"
    /\ UNCHANGED <<current_time2, passes, ephemeris, pass_number,
                   current_pass2, evaluated2, passes_file2, ephemeris_file2,
                   metadata>>

Sweep2 ==
    \/ (V2_StepFail \/ V2_StepVisible \/ V2_StepNotVisible \/ V2_Finish)
           /\ UNCHANGED setup2
    \/ V2_Setup
    \/ V2_SetupFails

\* ------------------------------------------------------------ specification
Init == InitInputs /\ Init1 /\ Init2

Next ==
    \/ V1_Setup /\ UNCHANGED others1
    \/ V1_StepFail /\ UNCHANGED <<others1, setup1>>
    \/ V1_StepVisible /\ UNCHANGED <<others1, setup1>>
    \/ V1_StepNotVisible /\ UNCHANGED <<others1, setup1>>
    \/ V1_Finish /\ UNCHANGED <<others1, setup1>>
    \/ V2_Setup /\ UNCHANGED others2
    \/ V2_SetupFails /\ UNCHANGED others2
    \/ V2_StepFail /\ UNCHANGED <<others2, setup2>>
    \/ V2_StepVisible /\ UNCHANGED <<others2, setup2>>
    \/ V2_StepNotVisible /\ UNCHANGED <<others2, setup2>>
    \/ V2_Finish /\ UNCHANGED <<others2, setup2>>

Spec == Init /\ [][Next]_vars

\* Each script is a sequential program that keeps running until it returns.
FairSpec == Spec /\ WF_vars(Sweep1 /\ UNCHANGED others1)
                 /\ WF_vars(Sweep2 /\ UNCHANGED others2)

\* Each script run twice on the same inputs, the second run after the first
\* has written its reports; the sweeps start at midnight.
Init12 == Init /\ start_time_utc = 0

Next12 ==
    \/ Next
    \/ V1_Rerun /\ UNCHANGED <<others1, previous2>>
    \/ V2_Rerun /\ UNCHANGED <<others2, previous1>>

Spec12 == Init12 /\ [][Next12]_vars

\* The one-hour scenario: step_seconds = 60 from 0 to 3600 s inclusive,
\* min_elevation = 0, elevation 5*sin(2*pi*t/3600) degrees.  SineTable[k + 1]
\* is the elevation at t = 60*k, rounded down to the model's unit (which keeps
\* every comparison with the threshold 0).  At t = 1800 and t = 3600 the exact
\* value is 0; what a floating-point sine returns there is 0 or a rounding
\* error of either sign (IEEE double: +6.1e-16 at 1800, -1.2e-15 at 3600), so
\* each of the two is drawn from {just below 0, 0}.
SineTable ==
    <<
       0, 5226, 10395, 15450, 20336, 24999, 29389, 33456,
       37157, 40450, 43301, 45677, 47552, 48907, 49726, 50000,
       49726, 48907, 47552, 45677, 43301, 40450, 37157, 33456,
       29389, 24999, 20336, 15450, 10395, 5226, 0, -5227,
       -10396, -15451, -20337, -25000, -29390, -33457, -37158, -40451,
       -43302, -45678, -47553, -48908, -49727, -50000, -49727, -48908,
       -47553, -45678, -43302, -40451, -37158, -33457, -29390, -25000,
       -20337, -15451, -10396, -5227, -1
    >>
SineElevation(t, atHalf, atEnd) ==
    IF t = timedelta(1800) THEN atHalf
    ELSE IF t = timedelta(3600) THEN atEnd
    ELSE SineTable[t \div timedelta(60) + 1]
Init13 ==
    /\ start_time_utc = 0
    /\ step_seconds = 60
    /\ end_time_utc = timedelta(3600)
    /\ min_elevation = 0
    /\ catalog = "ok"
    /\ \E atHalf \in {-1, 0}, atEnd \in {-1, 0} :
           altaz = [t \in {k * timedelta(60) : k \in 0 .. 60} |->
                       [ok |-> TRUE, alt |-> SineElevation(t, atHalf, atEnd)]]
    /\ Init1 /\ Init2

\* No geometry fails and the catalog answers in the scenario.
Next13 ==
    \/ V1_Setup /\ UNCHANGED others1
    \/ V1_StepVisible /\ UNCHANGED <<others1, setup1>>
    \/ V1_StepNotVisible /\ UNCHANGED <<others1, setup1>>
    \/ V1_Finish /\ UNCHANGED <<others1, setup1>>
    \/ V2_Setup /\ UNCHANGED others2
    \/ V2_StepVisible /\ UNCHANGED <<others2, setup2>>
    \/ V2_StepNotVisible /\ UNCHANGED <<others2, setup2>>
    \/ V2_Finish /\ UNCHANGED <<others2, setup2>>

Spec13 == Init13 /\ [][Next13]_vars

\* A sweep of minutes from midnight with a threshold of three decimals,
\* 10.004 degrees, which round(.., 2) does not keep.
ThreeDecimals == 10 * DegScale + 40
Init15 ==
    /\ start_time_utc = 0
    /\ step_seconds = 60
    /\ end_time_utc \in EndChoices(start_time_utc, step_seconds)
    /\ min_elevation = ThreeDecimals
    /\ catalog \in CatalogAnswers
    /\ altaz \in [SweepTimes(start_time_utc, end_time_utc, step_seconds)
                    -> Outcomes(min_elevation)]
    /\ Init1 /\ Init2

Spec15 == Init15 /\ [][Next]_vars

\* ------------------------------------------------------- what the claims read
\* Chronological order of two printed timestamps, read field by field.
IsoBefore(a, b) ==
    LET ka == <<a.day, a.hour, a.minute, a.second, a.frac>>
        kb == <<b.day, b.hour, b.minute, b.second, b.frac>>
    IN  \E i \in 1 .. 5 :
            /\ ka[i] < kb[i]
            /\ \A j \in 1 .. (i - 1) : ka[j] = kb[j]

\* The instants of a log whose geometry was computed, and those at or above
\* the threshold, in log order.
OkTimes(ev) == SelectSeq(ev, LAMBDA t : altaz[t].ok)
VisibleTimes(ev) ==
    SelectSeq(ev, LAMBDA t : altaz[t].ok /\ altaz[t].alt >= min_elevation)

Done1 == pc1 = "done"
Done2 == pc2 = "done"

\* C1: after a complete sweep the emitted passes do not overlap and are
\* ordered: each pass ends strictly before the next one starts.
NonOverlap(ps) ==
    \A i \in 1 .. (Len(ps) - 1) : IsoBefore(ps[i].end, ps[i + 1].start)
C1_NonOverlap ==
    /\ Done1 => NonOverlap(passes_file1.passes)
    /\ Done2 => NonOverlap(passes_file2.passes)
C1_Witness ==
    /\ Done1 /\ Len(passes_file1.passes) >= 2
    /\ Done2 /\ Len(passes_file2.passes) >= 2
    /\ start_time_utc \div DayTicks # end_time_utc \div DayTicks

\* C2: after a complete sweep every ephemeris record's pass_id is the
\* pass_id of exactly one pass of the final list, also when the sweep ended
\* with a pass open.
Closure(ps, es) ==
    \A k \in 1 .. Len(es) :
        Cardinality({i \in 1 .. Len(ps) : ps[i].pass_id = es[k].pass_id}) = 1
C2_Closure ==
    /\ Done1 => Closure(passes_file1.passes, ephemeris_file1.ephemeris)
    /\ Done2 => Closure(passes_file2.passes, ephemeris_file2.ephemeris)
C2_Witness ==
    /\ Done1 /\ Truthy(current_pass1) /\ Len(passes_file1.passes) >= 2
    /\ Done2 /\ Truthy(current_pass2) /\ Len(passes_file2.passes) >= 2

\* C3: after a complete sweep the pass_id values of the list are 1, 2, ...,
\* total_passes in list order, the list is in start-time order, and
\* total_passes is the length of the list.
CounterMonotone(report) ==
    /\ report.total_passes = Len(report.passes)
    /\ \A i \in 1 .. Len(report.passes) : report.passes[i].pass_id = i
    /\ \A i \in 1 .. (Len(report.passes) - 1) :
           IsoBefore(report.passes[i].start, report.passes[i + 1].start)
C3_PassIds ==
    /\ Done1 => CounterMonotone(passes_file1)
    /\ Done2 => CounterMonotone(passes_file2)
C3_Witness ==
    /\ Done1 /\ passes_file1.total_passes = 2
    /\ Done2 /\ passes_file2.total_passes = 2

\* ------------------------------------------------- more of what claims read
Range(seq) == {seq[i] : i \in 1 .. Len(seq)}
Last(seq) == seq[Len(seq)]
StepTicks == step_seconds * TicksPerSecond
Vis(t) == altaz[t].ok /\ altaz[t].alt >= min_elevation
NotVis(t) == altaz[t].ok /\ altaz[t].alt < min_elevation
Failed(t) == ~altaz[t].ok

\* a .. b is a maximal visibility window of the log ev: a and b are visible,
\* no computed sample between them is below the threshold, and the computed
\* samples next to the window (if any) are below it.
IsRun(ev, a, b) ==
    /\ a \in Range(ev) /\ b \in Range(ev) /\ a <= b
    /\ Vis(a) /\ Vis(b)
    /\ \A t \in Range(ev) : (a <= t /\ t <= b) => ~NotVis(t)
    /\ \A t \in Range(ev) :
           (t < a /\ Vis(t)) => \E u \in Range(ev) : t < u /\ u < a /\ NotVis(u)
    /\ \A t \in Range(ev) :
           (b < t /\ Vis(t)) => \E u \in Range(ev) : b < u /\ u < t /\ NotVis(u)

\* C4: a step whose geometry computation fails changes nothing but the sweep
\* time (open pass, counter, closed passes and ephemeris stay as they are);
\* so a visibility window with failed steps inside it comes out as exactly
\* one pass, from its first to its last visible sample, whose duration_sec
\* covers the failed steps too.
FailedStep1 ==
    /\ pc1 = "loop" /\ current_time1 <= end_time_utc
    /\ Failed(current_time1) /\ vars1' # vars1
FailedStep2 ==
    /\ pc2 = "loop" /\ current_time2 <= end_time_utc
    /\ Failed(current_time2) /\ vars2' # vars2
C4_Skip ==
    /\ FailedStep1 =>
           /\ UNCHANGED <<current_pass1, pass_counter, passes_data,
                          ephemeris_data, pc1>>
           /\ current_time1' = current_time1 + StepTicks
    /\ FailedStep2 =>
           /\ UNCHANGED <<current_pass2, pass_number, passes, ephemeris, pc2>>
           /\ current_time2' = current_time2 + StepTicks
HasFailureInside(ev, a, b) ==
    \E t \in Range(ev) : a < t /\ t < b /\ Failed(t)
C4_Window(ev, ps) ==
    \A a \in Range(ev), b \in Range(ev) :
        (IsRun(ev, a, b) /\ HasFailureInside(ev, a, b)) =>
            /\ Cardinality({i \in 1 .. Len(ps) :
                   /\ a <= fromisoformat(ps[i].end)
                   /\ fromisoformat(ps[i].start) <= b}) = 1
            /\ \E i \in 1 .. Len(ps) :
                   /\ ps[i].start = isoformat(a)
                   /\ ps[i].end = isoformat(b)
                   /\ ps[i].duration_sec = b - a
C4_FailedStepSkipped ==
    /\ [][C4_Skip]_vars
    /\ [](Done1 => C4_Window(evaluated1, passes_file1.passes))
    /\ [](Done2 => C4_Window(evaluated2, passes_file2.passes))
\* a window with two failed steps in a row inside it, in both variants
C4_Witness ==
    /\ Done1 /\ Done2
    /\ \E a \in Range(evaluated1), b \in Range(evaluated1) :
           /\ IsRun(evaluated1, a, b)
           /\ b - a = 3 * StepTicks
           /\ Failed(a + StepTicks) /\ Failed(a + 2 * StepTicks)
    /\ Len(passes_file1.passes) = 1 /\ Len(passes_file2.passes) = 1

\* C5 as claimed: a pass still open after the last time step is emitted with
\* its duration_sec computed and with end equal to the last evaluated step.
OpenPassEmitted(cp, ps) ==
    /\ Len(ps) > 0
    /\ Last(ps).pass_id = cp.pass_id
    /\ "duration_sec" \in DOMAIN Last(ps)
    /\ Last(ps).duration_sec = fromisoformat(Last(ps).end)
                                  - fromisoformat(Last(ps).start)
C5_Original ==
    /\ (Done1 /\ Truthy(current_pass1)) =>
           /\ OpenPassEmitted(current_pass1, passes_file1.passes)
           /\ Last(passes_file1.passes).end = isoformat(Last(evaluated1))
           /\ Last(evaluated1) <= end_time_utc
    /\ (Done2 /\ Truthy(current_pass2)) =>
           /\ OpenPassEmitted(current_pass2, passes_file2.passes)
           /\ Last(passes_file2.passes).end = isoformat(Last(evaluated2))
           /\ Last(evaluated2) <= end_time_utc

\* C5 as amended: a pass still open after the last time step is emitted with
\* its duration_sec computed and with end equal to the last step whose
\* geometry was computed (a visible one), which is not later than the last
\* evaluated step, itself not later than the sweep end.
C5_TruncatedPassEmitted ==
    /\ (Done1 /\ Truthy(current_pass1)) =>
           /\ OpenPassEmitted(current_pass1, passes_file1.passes)
           /\ Last(passes_file1.passes).end
                 = isoformat(Last(OkTimes(evaluated1)))
           /\ Vis(Last(OkTimes(evaluated1)))
           /\ Last(OkTimes(evaluated1)) <= Last(evaluated1)
           /\ Last(evaluated1) <= end_time_utc
    /\ (Done2 /\ Truthy(current_pass2)) =>
           /\ OpenPassEmitted(current_pass2, passes_file2.passes)
           /\ Last(passes_file2.passes).end
                 = isoformat(Last(OkTimes(evaluated2)))
           /\ Vis(Last(OkTimes(evaluated2)))
           /\ Last(OkTimes(evaluated2)) <= Last(evaluated2)
           /\ Last(evaluated2) <= end_time_utc
\* the sweep ended with a pass open and with a failed last step
C5_Witness ==
    /\ Done1 /\ Truthy(current_pass1) /\ Failed(Last(evaluated1))
    /\ Done2 /\ Truthy(current_pass2) /\ Failed(Last(evaluated2))
    /\ Len(passes_file1.passes) = 2 /\ Len(passes_file2.passes) = 2

\* C6: the number of emitted passes is the number of maximal runs of visible
\* samples among the computed samples; one not-visible sample between two
\* visible ones ends a pass, and the next visible sample starts the next pass
\* under a new pass_id.
RECURSIVE RunCount(_, _)
RunCount(ts, prevVisible) ==
    IF ts = <<>> THEN 0
    ELSE (IF Vis(Head(ts)) /\ ~prevVisible THEN 1 ELSE 0)
             + RunCount(Tail(ts), Vis(Head(ts)))
DipSplits(ok, ps) ==
    \A k \in 2 .. (Len(ok) - 1) :
        (Vis(ok[k - 1]) /\ NotVis(ok[k]) /\ Vis(ok[k + 1])) =>
            \E i \in 1 .. (Len(ps) - 1) :
                /\ ps[i].end = isoformat(ok[k - 1])
                /\ ps[i + 1].start = isoformat(ok[k + 1])
                /\ ps[i + 1].pass_id # ps[i].pass_id
C6_PassPerRun ==
    /\ Done1 =>
           /\ Len(passes_file1.passes) = RunCount(OkTimes(evaluated1), FALSE)
           /\ DipSplits(OkTimes(evaluated1), passes_file1.passes)
    /\ Done2 =>
           /\ Len(passes_file2.passes) = RunCount(OkTimes(evaluated2), FALSE)
           /\ DipSplits(OkTimes(evaluated2), passes_file2.passes)
\* visible, one not-visible sample, visible again (a failed step in between)
C6_Witness ==
    /\ Done1 /\ Done2
    /\ \E k \in 2 .. (Len(OkTimes(evaluated1)) - 1) :
           LET ok == OkTimes(evaluated1)
           IN  Vis(ok[k - 1]) /\ NotVis(ok[k]) /\ Vis(ok[k + 1])
    /\ Len(OkTimes(evaluated1)) < Len(evaluated1)
    /\ Len(passes_file1.passes) = 2 /\ Len(passes_file2.passes) = 2

\* C7: the threshold is inclusive: a computed sample whose elevation is
\* exactly min_elevation opens or extends a pass ending at that instant and
\* appends an ephemeris record for that instant.
AtThreshold(t) == altaz[t].ok /\ altaz[t].alt = min_elevation
C7_Step ==
    /\ ( /\ pc1 = "loop" /\ current_time1 <= end_time_utc
         /\ AtThreshold(current_time1) /\ vars1' # vars1 ) =>
           /\ Truthy(current_pass1')
           /\ current_pass1'.end = isoformat(current_time1)
           /\ Truthy(current_pass1) =>
                  current_pass1'.pass_id = current_pass1.pass_id
           /\ ~Truthy(current_pass1) =>
                  current_pass1'.start = isoformat(current_time1)
           /\ Len(ephemeris_data') = Len(ephemeris_data) + 1
           /\ Last(ephemeris_data').timestamp = isoformat(current_time1)
    /\ ( /\ pc2 = "loop" /\ current_time2 <= end_time_utc
         /\ AtThreshold(current_time2) /\ vars2' # vars2 ) =>
           /\ Truthy(current_pass2')
           /\ current_pass2'.end = isoformat(current_time2)
           /\ Truthy(current_pass2) =>
                  current_pass2'.pass_id = current_pass2.pass_id
           /\ ~Truthy(current_pass2) =>
                  current_pass2'.start = isoformat(current_time2)
           /\ Len(ephemeris') = Len(ephemeris) + 1
           /\ Last(ephemeris').timestamp = isoformat(current_time2)
C7_InclusiveThreshold == [][C7_Step]_vars
\* a pass opened by a sample at the threshold and extended by another one
C7_Witness ==
    /\ Len(evaluated1) = 2 /\ Len(evaluated2) = 2
    /\ AtThreshold(evaluated1[1]) /\ AtThreshold(evaluated1[2])
    /\ Truthy(current_pass1) /\ Truthy(current_pass2)
    /\ Len(ephemeris_data) = 2 /\ Len(ephemeris) = 2

\* C8: a visibility window of exactly one step (one visible sample between
\* not-visible samples or sweep boundaries) gives a pass with start = end
\* and duration_sec = 0.
SingleStep(ok, k) ==
    /\ Vis(ok[k])
    /\ k > 1 => NotVis(ok[k - 1])
    /\ k < Len(ok) => NotVis(ok[k + 1])
SingleStepPasses(ok, ps) ==
    \A k \in 1 .. Len(ok) :
        SingleStep(ok, k) =>
            /\ Cardinality({i \in 1 .. Len(ps) :
                   ps[i].start = isoformat(ok[k])}) = 1
            /\ \A i \in 1 .. Len(ps) :
                   ps[i].start = isoformat(ok[k]) =>
                       /\ ps[i].end = ps[i].start
                       /\ ps[i].duration_sec = 0
C8_SingleStepPass ==
    /\ Done1 => SingleStepPasses(OkTimes(evaluated1), passes_file1.passes)
    /\ Done2 => SingleStepPasses(OkTimes(evaluated2), passes_file2.passes)
\* one single-step window closed by a not-visible sample, one by the sweep end
C8_Witness ==
    /\ Done1 /\ Done2
    /\ LET ok == OkTimes(evaluated1)
       IN  /\ Len(ok) = 3
           /\ SingleStep(ok, 1) /\ SingleStep(ok, 3)
    /\ Len(passes_file1.passes) = 2 /\ Len(passes_file2.passes) = 2

\* C9: the ephemeris list holds one record per visible sample and nothing
\* else, in sweep order: as many records as computed samples with elevation
\* >= min_elevation, the same instants in the same order, timestamps strictly
\* increasing; records are only ever appended, and each is appended with the
\* pass_id of the pass open at that step.
OnePerVisibleSample(es, ev) ==
    /\ Len(es) = Len(VisibleTimes(ev))
    /\ \A k \in 1 .. Len(es) : es[k].timestamp = isoformat(VisibleTimes(ev)[k])
    /\ \A k \in 1 .. (Len(es) - 1) :
           IsoBefore(es[k].timestamp, es[k + 1].timestamp)
AppendOnly(es, esNext, cpNext) ==
    \/ esNext = es
    \/ /\ Len(esNext) = Len(es) + 1
       /\ SubSeq(esNext, 1, Len(es)) = es
       /\ Truthy(cpNext)
       /\ Last(esNext).pass_id = cpNext.pass_id
C9_Step ==
    /\ AppendOnly(ephemeris_data, ephemeris_data', current_pass1')
    /\ AppendOnly(ephemeris, ephemeris', current_pass2')
C9_Ephemeris ==
    /\ [](OnePerVisibleSample(ephemeris_data, evaluated1))
    /\ [](OnePerVisibleSample(ephemeris, evaluated2))
    /\ [](Done1 => ephemeris_file1.ephemeris = ephemeris_data)
    /\ [](Done2 => ephemeris_file2.ephemeris = ephemeris)
    /\ [][C9_Step]_vars
\* records of two passes, with a failed and a not-visible step left out
C9_Witness ==
    /\ Done1 /\ Done2
    /\ Len(evaluated1) = 4 /\ Len(ephemeris_file1.ephemeris) = 2
    /\ Len(ephemeris_file2.ephemeris) = 2
    /\ \E t \in Range(evaluated1) : Failed(t)
    /\ ephemeris_data[1].pass_id # ephemeris_data[2].pass_id
    /\ ephemeris[1].pass_id # ephemeris[2].pass_id

\* C10: with step_seconds > 0 the sweep terminates; it evaluates start,
\* start + step, start + 2*step, ... up to the last instant not later than
\* end, each once and in increasing order, whether steps succeed or fail,
\* and then writes both reports.
ExpectedCount ==
    IF end_time_utc < start_time_utc THEN 0
    ELSE (end_time_utc - start_time_utc) \div StepTicks + 1
ExpectedGrid == [i \in 1 .. ExpectedCount |-> start_time_utc + (i - 1) * StepTicks]
Increasing(ev) == \A i \in 1 .. (Len(ev) - 1) : ev[i] < ev[i + 1]
IsPrefix(ev, grid) ==
    /\ Len(ev) <= Len(grid)
    /\ \A i \in 1 .. Len(ev) : ev[i] = grid[i]
SweepOrder(ev, written) ==
    /\ Increasing(ev)
    /\ IsPrefix(ev, ExpectedGrid)
    /\ written => ev = ExpectedGrid
C10_Terminates ==
    /\ step_seconds > 0 =>
          <>(Done1 /\ Truthy(passes_file1) /\ Truthy(ephemeris_file1))
    /\ (step_seconds > 0 /\ get_tle_ok) =>
          <>(Done2 /\ Truthy(passes_file2) /\ Truthy(ephemeris_file2))
    /\ [](SweepOrder(evaluated1,
                     Done1 \/ Truthy(passes_file1) \/ Truthy(ephemeris_file1)))
    /\ [](SweepOrder(evaluated2,
                     Done2 \/ Truthy(passes_file2) \/ Truthy(ephemeris_file2)))
\* a complete sweep with failed and computed steps whose end is off the grid
C10_Witness ==
    /\ Done1 /\ Done2
    /\ Truthy(passes_file1) /\ Truthy(ephemeris_file2)
    /\ Len(evaluated1) = 3 /\ evaluated2 = evaluated1
    /\ Last(evaluated1) < end_time_utc
    /\ Failed(evaluated1[2]) /\ ~Failed(evaluated1[3])

\* C11 as claimed: a catalog failure is fatal to the whole run before the
\* sweep starts: no time step is evaluated and no report is produced.
NothingDone1 ==
    /\ evaluated1 = <<>>
    /\ ~Truthy(passes_file1) /\ ~Truthy(ephemeris_file1)
NothingDone2 ==
    /\ evaluated2 = <<>>
    /\ ~Truthy(passes_file2) /\ ~Truthy(ephemeris_file2)
C11_Original == catalog = "fails" => (NothingDone1 /\ NothingDone2)

\* C11 as amended: in variant 2 a catalog failure (get_tle) is fatal before
\* the sweep starts: no time step is evaluated and no report is produced.
\* In variant 1 a failed name lookup is not fatal: the name falls back to
\* SAT-<norad_id>, and the reports of the sweep carry that name.
C11_CatalogFailure ==
    catalog = "fails" =>
        /\ pc2 \in {"start", "failed"}
        /\ NothingDone2
        /\ pc1 # "start" => satellite_name = FallbackName
        /\ Done1 =>
               /\ passes_file1.metadata.satellite_name = FallbackName
               /\ ephemeris_file1.metadata.satellite_name = FallbackName
               /\ passes_file1.passes = passes_data
               /\ ephemeris_file1.ephemeris = ephemeris_data
\* the catalog failed: variant 2 stopped, variant 1 swept and reported
C11_Witness ==
    /\ catalog = "fails"
    /\ pc2 = "failed"
    /\ Done1 /\ Len(evaluated1) >= 2 /\ Len(passes_file1.passes) >= 1

\* C12: the sweep is deterministic: a second run with the same element set,
\* sweep parameters, per-step geometry results (failures included) and the
\* same clock reading writes the same passes and ephemeris reports as the
\* first.
SameClock == metadata.utc_calculated = previous2.passes_file.metadata.utc_calculated
FirstHalfPass(p) ==
    /\ p.pass_id = 1
    /\ fromisoformat(p.start) = 0
    /\ fromisoformat(p.end) \in {timedelta(1740), timedelta(1800)}
    /\ p.max_elevation = 5 * DegScale
C13_Original ==
    /\ Done1 => (Len(passes_file1.passes) = 1
                    /\ FirstHalfPass(passes_file1.passes[1]))
    /\ Done2 => (Len(passes_file2.passes) = 1
                    /\ FirstHalfPass(passes_file2.passes[1]))

\* C13 as amended: the first pass runs from t = 0 to the last sample of the
\* first half that is computed as >= 0 (t = 1800, or t = 1740 when the sine
\* at 1800 comes out just below 0), with max_elevation 5.  It is the only
\* pass when the sample at t = 3600 comes out just below 0 (as with IEEE
\* doubles); when that sample comes out as 0, the threshold being inclusive,
\* a second pass of a single step at t = 3600 follows.
ScenarioPasses(ps) ==
    /\ Len(ps) = IF altaz[timedelta(3600)].alt >= 0 THEN 2 ELSE 1
    /\ FirstHalfPass(ps[1])
    /\ fromisoformat(ps[1].end) =
          IF altaz[timedelta(1800)].alt >= 0
          THEN timedelta(1800) ELSE timedelta(1740)
    /\ ps[1].duration_sec = fromisoformat(ps[1].end)
    /\ Len(ps) = 2 =>
          /\ ps[2].pass_id = 2
          /\ fromisoformat(ps[2].start) = timedelta(3600)
          /\ ps[2].end = ps[2].start
          /\ ps[2].duration_sec = 0
          /\ ps[2].max_elevation = 0
C13_Scenario ==
    /\ Done1 => ScenarioPasses(passes_file1.passes)
    /\ Done2 => ScenarioPasses(passes_file2.passes)
\* the scenario as IEEE doubles compute it: one pass, from 0 to 1800 s
C13_Witness ==
    /\ Done1 /\ Done2
    /\ Len(evaluated1) = 61 /\ Len(evaluated2) = 61
    /\ altaz[timedelta(1800)].alt = 0 /\ altaz[timedelta(3600)].alt = -1
    /\ Len(passes_file1.passes) = 1 /\ Len(passes_file2.passes) = 1
    /\ Len(ephemeris_data) = 31 /\ Len(ephemeris) = 31

\* C14: every emitted pass is one visibility window of the sweep: its start
\* is the window's first visible sample, its end the window's last visible
\* sample, end >= start, and duration_sec = end - start in seconds, whatever
\* the number of visible samples and failed steps between the two; and every
\* window is emitted.
Windows(ev) == {w \in Range(ev) \X Range(ev) : IsRun(ev, w[1], w[2])}
PassIsWindow(ev, p) ==
    \E w \in Windows(ev) :
        /\ p.start = isoformat(w[1])
        /\ p.end = isoformat(w[2])
        /\ fromisoformat(p.end) >= fromisoformat(p.start)
        /\ ~IsoBefore(p.end, p.start)
        /\ p.duration_sec = w[2] - w[1]
PassesAreWindows(ev, ps) ==
    /\ \A i \in 1 .. Len(ps) : PassIsWindow(ev, ps[i])
    /\ Len(ps) = Cardinality(Windows(ev))
C14_PassBounds ==
    /\ Done1 => PassesAreWindows(evaluated1, passes_file1.passes)
    /\ Done2 => PassesAreWindows(evaluated2, passes_file2.passes)
\* a pass of three visible samples with a failed step between them
C14_Witness ==
    /\ Done1 /\ Done2
    /\ Len(evaluated1) = 4
    /\ Vis(evaluated1[1]) /\ Vis(evaluated1[2])
    /\ Failed(evaluated1[3]) /\ Vis(evaluated1[4])
    /\ Len(passes_file1.passes) = 1 /\ Len(passes_file2.passes) = 1
    /\ passes_file1.passes[1].duration_sec = 3 * StepTicks
    /\ passes_file2.passes[1].duration_sec = 3 * StepTicks

\* The elevations of the visible samples of pass p: the samples whose
\* ephemeris records carry its pass_id.
PassElevations(es, p) ==
    {altaz[fromisoformat(es[k].timestamp)].alt :
        k \in {j \in 1 .. Len(es) : es[j].pass_id = p.pass_id}}
MaxOf(S) == CHOOSE x \in S : \A y \in S : y <= x
\* C15 as claimed: in both variants every pass's max_elevation is the
\* maximum elevation over its visible samples, and not below min_elevation.
ExactMax(es, ps) ==
    \A i \in 1 .. Len(ps) :
        /\ PassElevations(es, ps[i]) # {}
        /\ ps[i].max_elevation = MaxOf(PassElevations(es, ps[i]))
        /\ ps[i].max_elevation >= min_elevation
C15_Original ==
    /\ Done1 => ExactMax(ephemeris_file1.ephemeris, passes_file1.passes)
    /\ Done2 => ExactMax(ephemeris_file2.ephemeris, passes_file2.passes)
\* C15 as amended: variant 1 stores the maximum elevation over the pass's
\* visible samples, never below min_elevation; variant 2 stores that maximum
\* rounded to two decimals, never below min_elevation rounded to two
\* decimals (it can be below min_elevation itself, or above the maximum, by
\* the rounding).
RoundedMax(es, ps) ==
    \A i \in 1 .. Len(ps) :
        /\ PassElevations(es, ps[i]) # {}
        /\ ps[i].max_elevation = Round2Deg(MaxOf(PassElevations(es, ps[i])))
        /\ ps[i].max_elevation >= Round2Deg(min_elevation)
C15_MaxElevation ==
    /\ Done1 => ExactMax(ephemeris_file1.ephemeris, passes_file1.passes)
    /\ Done2 => RoundedMax(ephemeris_file2.ephemeris, passes_file2.passes)
\* a pass whose maximum is not its first sample, and a pass at the threshold
\* that variant 2 reports below it
C15_Witness ==
    /\ Done1 /\ Done2
    /\ Len(passes_file1.passes) = 2 /\ Len(passes_file2.passes) = 2
    /\ Cardinality(PassElevations(ephemeris_file2.ephemeris,
                                  passes_file2.passes[1])) = 2
    /\ passes_file1.passes[1].max_elevation
          > altaz[fromisoformat(passes_file1.passes[1].start)].alt
    /\ passes_file2.passes[1].max_elevation
          > altaz[fromisoformat(passes_file2.passes[1].start)].alt
    /\ passes_file1.passes[2].max_elevation = min_elevation
    /\ passes_file2.passes[2].max_elevation < min_elevation

\* C16: the pass counter is 0 when the sweep starts, goes up by exactly 1 on
\* each step that opens a pass (no open pass, visible sample) and is left as
\* it is by every other step (visible with a pass open, not visible, failed,
\* the final flush); so it never decreases or resets during a run.
Opens1 ==
    /\ pc1 = "loop" /\ current_time1 <= end_time_utc
    /\ Vis(current_time1) /\ ~Truthy(current_pass1)
    /\ vars1' # vars1
Opens2 ==
    /\ pc2 = "loop" /\ current_time2 <= end_time_utc
    /\ Vis(current_time2) /\ ~Truthy(current_pass2)
    /\ vars2' # vars2
C16_Step ==
    /\ pass_counter' = IF Opens1 THEN pass_counter + 1 ELSE pass_counter
    /\ pass_number' = IF Opens2 THEN pass_number + 1 ELSE pass_number
    /\ Opens1 => Truthy(current_pass1')
    /\ Opens2 => Truthy(current_pass2')
    /\ pass_counter' >= pass_counter /\ pass_number' >= pass_number
C16_Counter ==
    /\ [](evaluated1 = <<>> => pass_counter = 0)
    /\ [](evaluated2 = <<>> => pass_number = 0)
    /\ [][C16_Step]_vars
\* two passes opened, around steps of every other kind
C16_Witness ==
    /\ Done1 /\ Done2
    /\ pass_counter = 2 /\ pass_number = 2
    /\ Len(evaluated1) = 4
    /\ \E t \in Range(evaluated1) : Failed(t)
    /\ \E t \in Range(evaluated1) : NotVis(t)

\* C17: in the passes report of variant 2, visible_time_total is the sum of
\* duration_sec over the emitted passes, the pass closed by the final flush
\* included, and every emitted pass has its duration_sec set.
RECURSIVE DurationUpTo(_, _)
DurationUpTo(ps, n) ==
    IF n = 0 THEN 0 ELSE DurationUpTo(ps, n - 1) + ps[n].duration_sec
TotalIsSum(report) ==
    /\ \A i \in 1 .. Len(report.passes) :
           "duration_sec" \in DOMAIN report.passes[i]
    /\ report.visible_time_total
          = DurationUpTo(report.passes, Len(report.passes))
C17_VisibleTimeTotal == Done2 => TotalIsSum(passes_file2)
\* two passes, the second one closed by the final flush after two samples
C17_Witness ==
    /\ Done2
    /\ Len(passes) = 2 /\ Len(passes_file2.passes) = 2
    /\ Truthy(current_pass2)
    /\ passes_file2.passes[2].duration_sec = StepTicks
    /\ passes_file2.visible_time_total = StepTicks

\* C18: between two steps of the sweep the counter equals the number of
\* closed passes, plus 1 when a pass is open; the open pass carries the
\* counter's value as its pass_id; and a pass is open exactly when the most
\* recent sample whose geometry was computed was visible.
LastComputedVisible(ev) ==
    /\ OkTimes(ev) # <<>>
    /\ Vis(Last(OkTimes(ev)))
Segmentation(counter, closed, open, ev) ==
    /\ counter = Len(closed) + (IF Truthy(open) THEN 1 ELSE 0)
    /\ Truthy(open) => open.pass_id = counter
    /\ Truthy(open) <=> LastComputedVisible(ev)
C18_CounterAndOpenPass ==
    /\ pc1 = "loop" =>
           Segmentation(pass_counter, passes_data, current_pass1, evaluated1)
    /\ pc2 = "loop" =>
           Segmentation(pass_number, passes, current_pass2, evaluated2)
\* mid-sweep, one pass closed and a second one open across a failed step
C18_Witness ==
    /\ pc1 = "loop" /\ pc2 = "loop"
    /\ Len(passes_data) = 1 /\ Len(passes) = 1
    /\ Truthy(current_pass1) /\ Truthy(current_pass2)
    /\ current_pass1.pass_id = 2 /\ current_pass2.pass_id = 2
    /\ Len(evaluated1) = 4 /\ Failed(Last(evaluated1))
    /\ Len(evaluated2) = 4 /\ Failed(Last(evaluated2))

\* C19: after a complete sweep of variant 2, the events list of each pass is
\* the subsequence of the ephemeris list whose records carry the pass's
\* pass_id, in the same order, and the events lists of all passes, taken in
\* pass order, make up the whole ephemeris list.
RECURSIVE EventsUpTo(_, _)
EventsUpTo(ps, n) ==
    IF n = 0 THEN <<>> ELSE EventsUpTo(ps, n - 1) \o ps[n].events
RecordsOf(es, id) == SelectSeq(es, LAMBDA e : e.pass_id = id)
EventsPartition(ps, es) ==
    /\ \A i \in 1 .. Len(ps) : ps[i].events = RecordsOf(es, ps[i].pass_id)
    /\ EventsUpTo(ps, Len(ps)) = es
C19_Events ==
    Done2 => EventsPartition(passes_file2.passes, ephemeris_file2.ephemeris)
\* two passes, of two samples and of one
C19_Witness ==
    /\ Done2
    /\ Len(passes_file2.passes) = 2
    /\ Len(passes_file2.passes[1].events) = 2
    /\ Len(passes_file2.passes[2].events) = 1
    /\ Len(ephemeris_file2.ephemeris) = 3

\* C20: on the same sweep parameters and the same outcome at every step,
\* the two variants report the same number of passes, with the same pass_id,
\* start and end for each, and ephemeris lists with the same sequence of
\* (pass_id, timestamp) pairs.
SamePasses(ps, qs) ==
    /\ Len(ps) = Len(qs)
    /\ \A i \in 1 .. Len(ps) :
           /\ ps[i].pass_id = qs[i].pass_id
           /\ ps[i].start = qs[i].start
           /\ ps[i].end = qs[i].end
SameRecords(es, fs) ==
    /\ Len(es) = Len(fs)
    /\ \A k \in 1 .. Len(es) :
           /\ es[k].pass_id = fs[k].pass_id
           /\ es[k].timestamp = fs[k].timestamp
C20_SameSegmentation ==
    (Done1 /\ Done2) =>
        /\ evaluated1 = evaluated2
        /\ SamePasses(passes_file1.passes, passes_file2.passes)
        /\ passes_file1.total_passes = passes_file2.total_passes
        /\ SameRecords(ephemeris_file1.ephemeris, ephemeris_file2.ephemeris)
\* both variants done on a sweep with a failed step inside the first of two
\* passes
C20_Witness ==
    /\ Done1 /\ Done2
    /\ Len(evaluated2) = 4
    /\ Vis(evaluated2[1]) /\ Failed(evaluated2[2])
    /\ NotVis(evaluated2[3]) /\ Vis(evaluated2[4])
    /\ Len(passes_file1.passes) = 2 /\ Len(passes_file2.passes) = 2
    /\ Len(ephemeris_file1.ephemeris) = 2

=============================================================================
